---------------------------- MODULE Spec2Model ----------------------------
(***************************************************************************)
(* Model of architecture/job.go of beanstalkg: the Job record, NewJob,     *)
(* the SetState state machine, the time-relative Key function and the      *)
(* AwaitingClient handle.                                                  *)
(*                                                                         *)
(* time.Now().Unix() is the variable now, advanced by Tick.  int64         *)
(* arithmetic is modelled on the integers: all inputs are drawn from       *)
(* small sets and no sum or difference leaves the int64 range.             *)
(***************************************************************************)
EXTENDS Integers, Sequences, FiniteSets, TLC

(***************************************************************************)
(* Bounds of the model.                                                    *)
(***************************************************************************)
ClockStart == 1
MaxClock == 5
MaxDelay == 2
MaxTTR == 2
MaxPri == 1
MaxAttempts == 2
MaxClients == 3
MaxChans == 2

(***************************************************************************)
(* type State int and its iota constants.                                  *)
(***************************************************************************)
READY == 0
DELAYED == 1
RESERVED == 2
BURIED == 3

States == {READY, DELAYED, RESERVED, BURIED}

\* State arguments a caller can pass: State is an int, so values outside
\* the four constants are expressible.
StateArgs == States \cup {READY - 1, BURIED + 1}

\* error values of SetState: nil or errors.New(msg)
NIL == "nil"
ErrToREADY == "Invalid state transition to READY"
ErrToDELAYED == "Invalid state transition to RESERVED"
ErrToRESERVED == "Invalid state transition to RESERVED"
ErrToBURIED == "Invalid state transition to BURIED"

JobIds == {"j1"}
Pris == 0..MaxPri
Delays == (0 - 1)..MaxDelay
TTRs == 1..MaxTTR
ByteCounts == {1}
Datas == {"x"}

\* new(Job): the zero value of the struct
ZeroJob ==
    [id |-> "", Pri |-> 0, Delay |-> 0, StartedDelayAt |-> 0,
     StartedTTRAt |-> 0, TTR |-> 0, Bytes |-> 0, Data |-> "", state |-> READY]

\* NewJob with the test delay < 0: a zero delay is filed as DELAYED
NewJob_ZeroDelayed(id, pri, delay, ttr, bytes, data) ==
    [ZeroJob EXCEPT !.id = id, !.Pri = pri, !.Delay = delay, !.TTR = ttr,
                    !.Bytes = bytes, !.Data = data,
                    !.state = IF delay < 0 THEN READY ELSE DELAYED]

NewJob(id, pri, delay, ttr, bytes, data) ==
    [ZeroJob EXCEPT !.id = id, !.Pri = pri, !.Delay = delay, !.TTR = ttr,
                    !.Bytes = bytes, !.Data = data,
                    !.state = IF delay <= 0 THEN READY ELSE DELAYED]

(***************************************************************************)
(* Job.SetState at clock reading t, one operator per case of the switch:   *)
(* each gives the job after the call and the error returned.               *)
(***************************************************************************)

\* case READY without the test on the source state
ToREADY_FromAny(j) ==
    [job |-> [j EXCEPT !.state = READY], err |-> NIL]

\* case READY that refuses a RESERVED job
ToREADY_NotFromReserved(j) ==
    IF j.state = DELAYED \/ j.state = BURIED
    THEN [job |-> [j EXCEPT !.state = READY], err |-> NIL]
    ELSE [job |-> j, err |-> ErrToREADY]

\* case READY that also clears the timestamp of the reservation
ToREADY_ClearStamp(j) ==
    IF j.state = RESERVED \/ j.state = DELAYED \/ j.state = BURIED
    THEN [job |-> [j EXCEPT !.state = READY, !.StartedTTRAt = 0],
          err |-> NIL]
    ELSE [job |-> j, err |-> ErrToREADY]

\* case READY
ToREADY(j) ==
    IF j.state = RESERVED \/ j.state = DELAYED \/ j.state = BURIED
    THEN [job |-> [j EXCEPT !.state = READY], err |-> NIL]
    ELSE [job |-> j, err |-> ErrToREADY]

\* case DELAYED that leaves StartedDelayAt as it was
ToDELAYED_KeepStamp(j, t) ==
    IF j.state = RESERVED
    THEN [job |-> [j EXCEPT !.state = DELAYED], err |-> NIL]
    ELSE [job |-> j, err |-> ErrToDELAYED]

\* case DELAYED that stamps StartedDelayAt before it tests the source state
ToDELAYED_StampFirst(j, t) ==
    IF j.state = RESERVED
    THEN [job |-> [j EXCEPT !.state = DELAYED, !.StartedDelayAt = t],
          err |-> NIL]
    ELSE [job |-> [j EXCEPT !.StartedDelayAt = t], err |-> ErrToDELAYED]

\* case DELAYED
ToDELAYED(j, t) ==
    IF j.state = RESERVED
    THEN [job |-> [j EXCEPT !.state = DELAYED, !.StartedDelayAt = t],
          err |-> NIL]
    ELSE [job |-> j, err |-> ErrToDELAYED]

\* case RESERVED that also accepts a job that is RESERVED already
ToRESERVED_Again(j, t) ==
    IF j.state = READY \/ j.state = RESERVED
    THEN [job |-> [j EXCEPT !.state = RESERVED, !.StartedTTRAt = t],
          err |-> NIL]
    ELSE [job |-> j, err |-> ErrToRESERVED]

\* case RESERVED that stamps StartedTTRAt on the first reservation only
ToRESERVED_StampOnce(j, t) ==
    IF j.state = READY
    THEN [job |-> [j EXCEPT !.state = RESERVED,
                            !.StartedTTRAt = IF @ = 0 THEN t ELSE @],
          err |-> NIL]
    ELSE [job |-> j, err |-> ErrToRESERVED]

\* case RESERVED
ToRESERVED(j, t) ==
    IF j.state = READY
    THEN [job |-> [j EXCEPT !.state = RESERVED, !.StartedTTRAt = t],
          err |-> NIL]
    ELSE [job |-> j, err |-> ErrToRESERVED]

\* case BURIED that also accepts a DELAYED job
ToBURIED_FromDelayed(j) ==
    IF j.state = RESERVED \/ j.state = DELAYED
    THEN [job |-> [j EXCEPT !.state = BURIED], err |-> NIL]
    ELSE [job |-> j, err |-> ErrToBURIED]

\* case BURIED
ToBURIED(j) ==
    IF j.state = RESERVED
    THEN [job |-> [j EXCEPT !.state = BURIED], err |-> NIL]
    ELSE [job |-> j, err |-> ErrToBURIED]

\* the switch with a default case that stores the state
SetState_StoreDefault(j, state, t) ==
    CASE state = READY -> ToREADY(j)
      [] state = DELAYED -> ToDELAYED(j, t)
      [] state = RESERVED -> ToRESERVED(j, t)
      [] state = BURIED -> ToBURIED(j)
      [] OTHER -> [job |-> [j EXCEPT !.state = state], err |-> NIL]

\* the switch; a state that matches no case falls through to return nil
SetState(j, state, t) ==
    CASE state = READY -> ToREADY(j)
      [] state = DELAYED -> ToDELAYED(j, t)
      [] state = RESERVED -> ToRESERVED(j, t)
      [] state = BURIED -> ToBURIED(j)
      [] OTHER -> [job |-> j, err |-> NIL]

\* Job.State
State(j) == j.state

\* Key with the remaining time clamped at zero
Key_Clamped(j, t) ==
    LET max0(x) == IF x < 0 THEN 0 ELSE x IN
    CASE j.state = READY -> j.Pri
      [] j.state = DELAYED -> max0(j.Delay - (t - j.StartedDelayAt))
      [] j.state = RESERVED -> max0(j.TTR - (t - j.StartedTTRAt))
      [] OTHER -> 0

\* Key whose fall-through result is the priority
Key_BuriedPri(j, t) ==
    CASE j.state = READY -> j.Pri
      [] j.state = DELAYED -> j.Delay - (t - j.StartedDelayAt)
      [] j.state = RESERVED -> j.TTR - (t - j.StartedTTRAt)
      [] OTHER -> j.Pri

\* Key whose RESERVED case reads the timestamp of the delay
Key_ReservedDelayStamp(j, t) ==
    CASE j.state = READY -> j.Pri
      [] j.state = DELAYED -> j.Delay - (t - j.StartedDelayAt)
      [] j.state = RESERVED -> j.TTR - (t - j.StartedDelayAt)
      [] OTHER -> 0

\* Job.Key at clock reading t
Key(j, t) ==
    CASE j.state = READY -> j.Pri
      [] j.state = DELAYED -> j.Delay - (t - j.StartedDelayAt)
      [] j.state = RESERVED -> j.TTR - (t - j.StartedTTRAt)
      [] OTHER -> 0

\* Job.Id
Id(j) == j.id

\* uuid.NewV1().String(): the ids the generator can hand out
Uuids == {"u1", "u2", "u3", "u4"}

\* the channels a caller can pass, by identity
Chans == 1..MaxChans

NewAwaitingClient(uuid, sendChannel) ==
    [id |-> uuid, SendChannel |-> sendChannel]

\* AwaitingClient.Key that orders the handles by their channel
AwaitingClientKey_ByChannel(w) == 0 - w.SendChannel

\* AwaitingClient.Key
AwaitingClientKey(w) == 0

\* AwaitingClient.Id
AwaitingClientId(w) == w.id

VARIABLES
    now,    \* time.Now().Unix()
    jobs,   \* the jobs created so far, by id
    ret,    \* the last call on a job: its arguments, the clock reading
            \* at the call, the job before it (fresh: its state had never
            \* changed), and the error, key, state or id returned
    hist,   \* per job: history of its calls (not program state)
    clients \* the AwaitingClient handles created so far, oldest first

vars == <<now, jobs, ret, hist, clients>>

NoCall ==
    [op |-> "none", job |-> "", target |-> READY, at |-> 0,
     before |-> ZeroJob, fresh |-> FALSE, err |-> NIL, key |-> 0,
     state |-> READY, id |-> ""]

Init ==
    /\ now = ClockStart
    /\ jobs = [i \in {} |-> ZeroJob]
    /\ ret = NoCall
    /\ hist = [i \in {} |-> 0]
    /\ clients = <<>>

Tick ==
    /\ now < MaxClock
    /\ now' = now + 1
    /\ UNCHANGED <<jobs, ret, hist, clients>>

\* hist[id] is a history of the calls made on job id:
\*   createdAt      the clock reading at NewJob
\*   moved          some SetState call has changed the job's state
\*   open           the job has been READY
\*   tried, won     the number of SetState(RESERVED) calls, and of those
\*                  that returned nil, since the job last entered READY or
\*                  was created (saturating at MaxAttempts)
\*   bprog          0: never BURIED; 1: entered BURIED; 2: then entered
\*                  READY
\*   dprog          0: never DELAYED; 1: entered DELAYED; 2: then entered
\*                  READY; 3: then entered RESERVED
NewJobCall(id, pri, delay, ttr, bytes, data) ==
    /\ id \notin DOMAIN jobs
    /\ LET j == NewJob(id, pri, delay, ttr, bytes, data) IN
         /\ jobs' = (id :> j) @@ jobs
         /\ hist' = (id :> [createdAt |-> now, moved |-> FALSE,
                            open |-> (j.state = READY), tried |-> 0,
                            won |-> 0,
                            bprog |-> IF j.state = BURIED THEN 1 ELSE 0,
                            dprog |-> IF j.state = DELAYED THEN 1 ELSE 0])
                    @@ hist
    /\ ret' = [NoCall EXCEPT !.op = "NewJob", !.job = id, !.at = now]
    /\ UNCHANGED <<now, clients>>

SetStateCall(id, state) ==
    /\ id \in DOMAIN jobs
    /\ LET r == SetState(jobs[id], state, now)
           h == hist[id]
           \* the call returned nil for one of the four states: the job
           \* has entered the state it is in now
           entered == r.err = NIL /\ state \in States
           s == r.job.state
           inc(n, b) == IF b /\ n < MaxAttempts THEN n + 1 ELSE n
           h1 == [h EXCEPT
                    !.moved = @ \/ s # jobs[id].state,
                    !.tried = inc(@, state = RESERVED),
                    !.won = inc(@, state = RESERVED /\ r.err = NIL)]
           h2 == IF ~entered THEN h1
                 ELSE IF s = READY
                   THEN [h1 EXCEPT !.open = TRUE, !.tried = 0, !.won = 0,
                                   !.bprog = IF @ = 1 THEN 2 ELSE @,
                                   !.dprog = IF @ = 1 THEN 2 ELSE @]
                 ELSE IF s = RESERVED
                   THEN [h1 EXCEPT !.dprog = IF @ = 2 THEN 3 ELSE @]
                 ELSE IF s = DELAYED
                   THEN [h1 EXCEPT !.dprog = 1]
                 ELSE IF s = BURIED
                   THEN [h1 EXCEPT !.bprog = 1]
                 ELSE h1
       IN
         /\ jobs' = [jobs EXCEPT ![id] = r.job]
         /\ ret' = [NoCall EXCEPT !.op = "SetState", !.job = id,
                                   !.target = state, !.at = now,
                                   !.before = jobs[id],
                                   !.fresh = ~h.moved, !.err = r.err]
         /\ hist' = [hist EXCEPT ![id] = h2]
    /\ UNCHANGED <<now, clients>>

KeyCall(id) ==
    /\ id \in DOMAIN jobs
    /\ ret' = [NoCall EXCEPT !.op = "Key", !.job = id, !.at = now,
                               !.before = jobs[id],
                               !.key = Key(jobs[id], now)]
    /\ UNCHANGED <<now, jobs, hist, clients>>

StateCall(id) ==
    /\ id \in DOMAIN jobs
    /\ ret' = [NoCall EXCEPT !.op = "State", !.job = id, !.at = now,
                               !.before = jobs[id],
                               !.state = State(jobs[id])]
    /\ UNCHANGED <<now, jobs, hist, clients>>

IdCall(id) ==
    /\ id \in DOMAIN jobs
    /\ ret' = [NoCall EXCEPT !.op = "Id", !.job = id, !.at = now,
                               !.before = jobs[id],
                               !.id = Id(jobs[id])]
    /\ UNCHANGED <<now, jobs, hist, clients>>

Next ==
    \/ Tick
    \/ \E id \in JobIds, pri \in Pris, delay \in Delays, ttr \in TTRs,
          bytes \in ByteCounts, data \in Datas :
          NewJobCall(id, pri, delay, ttr, bytes, data)
    \/ \E id \in JobIds, state \in StateArgs : SetStateCall(id, state)
    \/ \E id \in JobIds : KeyCall(id)
    \/ \E id \in JobIds : StateCall(id)
    \/ \E id \in JobIds : IdCall(id)

Spec == Init /\ [][Next]_vars

(***************************************************************************)
(* The Expiry Sweeper and a reserving consumer, as the tube drives the     *)
(* job: the sweeper applies SetState(READY) to a DELAYED or RESERVED job   *)
(* whose key is <= 0; a consumer reserves a job it finds READY.  In        *)
(* SweepSpec a reserved job is never released or buried by its consumer.   *)
(* The clock advances, the sweeper runs and a consumer asks again and      *)
(* again: each is weakly fair.                                             *)
(***************************************************************************)
SweepDelayed(id) ==
    /\ id \in DOMAIN jobs
    /\ State(jobs[id]) = DELAYED
    /\ Key(jobs[id], now) <= 0
    /\ SetStateCall(id, READY)

SweepReserved(id) ==
    /\ id \in DOMAIN jobs
    /\ State(jobs[id]) = RESERVED
    /\ Key(jobs[id], now) <= 0
    /\ SetStateCall(id, READY)

Reserve(id) ==
    /\ id \in DOMAIN jobs
    /\ State(jobs[id]) = READY
    /\ SetStateCall(id, RESERVED)

SweepNext ==
    \/ Tick
    \/ \E id \in JobIds, pri \in Pris, delay \in Delays, ttr \in TTRs,
          bytes \in ByteCounts, data \in Datas :
          NewJobCall(id, pri, delay, ttr, bytes, data)
    \/ \E id \in JobIds : SweepDelayed(id)
    \/ \E id \in JobIds : SweepReserved(id)
    \/ \E id \in JobIds : Reserve(id)

SweepSpec ==
    /\ Init
    /\ [][SweepNext]_vars
    /\ WF_vars(Tick)
    /\ \A id \in JobIds :
           /\ WF_vars(SweepDelayed(id))
           /\ WF_vars(SweepReserved(id))
           /\ WF_vars(Reserve(id))

(***************************************************************************)
(* Two jobs of one tube, both DELAYED or RESERVED, whose keys are read as  *)
(* the clock advances.  PairJobs(t) are jobs as NewJob and SetState leave  *)
(* them by clock reading t:                                                *)
(*   DELAYED since NewJob: Delay > 0 and both timestamps 0;                *)
(*   DELAYED since a SetState(DELAYED) at s <= t, reserved at s as well;   *)
(*   RESERVED since a SetState(RESERVED) at s <= t, created READY.         *)
(***************************************************************************)
PairIds == {"j1", "j2"}

PairJobs(id, t) ==
    {[NewJob(id, 0, d, 1, 1, "x") EXCEPT !.state = DELAYED] :
         d \in {x \in Delays : x > 0}}
    \cup
    {[NewJob(id, 0, d, 1, 1, "x") EXCEPT !.state = DELAYED,
                                         !.StartedTTRAt = s,
                                         !.StartedDelayAt = s] :
         d \in Delays, s \in ClockStart..t}
    \cup
    {[NewJob(id, 0, 0, r, 1, "x") EXCEPT !.state = RESERVED,
                                         !.StartedTTRAt = s] :
         r \in TTRs, s \in ClockStart..t}

PairInit ==
    /\ now \in ClockStart..MaxClock
    /\ jobs \in {[id \in PairIds |-> IF id = "j1" THEN a ELSE b] :
                     a \in PairJobs("j1", now), b \in PairJobs("j2", now)}
    /\ ret = NoCall
    /\ hist = [i \in {} |-> 0]
    /\ clients = <<>>

PairNext ==
    \/ Tick
    \/ \E id \in PairIds : KeyCall(id)

PairSpec == PairInit /\ [][PairNext]_vars

(***************************************************************************)
(* The waiting consumers of a tube: handles are created by                 *)
(* NewAwaitingClient, each with a new uuid, and their Key() and Id() are   *)
(* called as the clock advances.                                           *)
(***************************************************************************)
NewAwaitingClientCall(uuid, sendChannel) ==
    /\ Len(clients) < MaxClients
    /\ \A i \in 1..Len(clients) : clients[i].id # uuid
    /\ clients' = Append(clients, NewAwaitingClient(uuid, sendChannel))
    /\ ret' = [NoCall EXCEPT !.op = "NewAwaitingClient", !.job = uuid,
                               !.at = now]
    /\ UNCHANGED <<now, jobs, hist>>

AwaitingClientKeyCall(i) ==
    /\ i \in 1..Len(clients)
    /\ ret' = [NoCall EXCEPT !.op = "AwaitingClient.Key",
                               !.job = clients[i].id, !.at = now,
                               !.key = AwaitingClientKey(clients[i])]
    /\ UNCHANGED <<now, jobs, hist, clients>>

AwaitingClientIdCall(i) ==
    /\ i \in 1..Len(clients)
    /\ ret' = [NoCall EXCEPT !.op = "AwaitingClient.Id",
                               !.job = clients[i].id, !.at = now,
                               !.id = AwaitingClientId(clients[i])]
    /\ UNCHANGED <<now, jobs, hist, clients>>

ClientNext ==
    \/ Tick
    \/ \E uuid \in Uuids, sendChannel \in Chans :
          NewAwaitingClientCall(uuid, sendChannel)
    \/ \E i \in 1..MaxClients : AwaitingClientKeyCall(i)
    \/ \E i \in 1..MaxClients : AwaitingClientIdCall(i)

ClientSpec == Init /\ [][ClientNext]_vars

(***************************************************************************)
(* Properties.                                                             *)
(***************************************************************************)

\* the edges of the lifecycle diagram, <<from, to>>
Edges ==
    {<<READY, RESERVED>>, <<RESERVED, READY>>, <<RESERVED, DELAYED>>,
     <<RESERVED, BURIED>>, <<DELAYED, READY>>, <<BURIED, READY>>}

\* the last call was SetState(state) on a job; ret.before is the job
\* before the call and jobs[ret.job] the job after it
LastSetState(state) == ret.op = "SetState" /\ ret.target = state

\* C1: a SetState call with one of the four states as target changes the
\* job's state only along an edge of the diagram; a call that attempts
\* any other edge, self-edges included, returns a non-nil error and leaves
\* the state as it was.
C1_OnlyDiagramEdges ==
    \A state \in States :
        LastSetState(state) =>
            LET from == ret.before.state
                to == jobs[ret.job].state
            IN  /\ to # from => <<from, to>> \in Edges /\ to = state
                /\ <<from, state>> \notin Edges =>
                       ret.err # NIL /\ to = from

\* a job that has moved along the diagram is READY and a further
\* SetState(READY), the self-edge, has just been rejected
C1_Witness ==
    /\ LastSetState(READY)
    /\ hist[ret.job].moved
    /\ ret.before.state = READY
    /\ ret.err # NIL
    /\ jobs[ret.job].state = READY

\* C2: a job created by NewJob with a delay d > 0 at clock reading c, and
\* DELAYED ever since, has a key > 0 at every clock reading now with
\* c <= now < c + d.
C2_NewDelayedJobNotDue ==
    \A id \in DOMAIN jobs :
        LET j == jobs[id]
            c == hist[id].createdAt
        IN  (/\ j.state = DELAYED
             /\ ~hist[id].moved
             /\ j.Delay > 0
             /\ c <= now
             /\ now < c + j.Delay)
            => Key(j, now) > 0

\* C3: SetState(RESERVED) returns nil exactly when the job is READY; of
\* the SetState(RESERVED) calls made since a job last entered READY, once
\* there is at least one, exactly one has returned nil; and no job enters
\* RESERVED twice without entering READY in between.
C3_ReservedByOne ==
    /\ LastSetState(RESERVED) =>
           (ret.err = NIL <=> ret.before.state = READY)
    /\ \A id \in DOMAIN jobs :
           /\ hist[id].won <= 1
           /\ hist[id].open /\ hist[id].tried >= 1 => hist[id].won = 1

\* two SetState(RESERVED) calls have been made on a job since it entered
\* READY: one returned nil, the last one an error
C3_Witness ==
    /\ LastSetState(RESERVED)
    /\ ret.err # NIL
    /\ hist[ret.job].open
    /\ hist[ret.job].tried >= 2
    /\ hist[ret.job].won = 1

\* C4: after a successful SetState(DELAYED) at clock reading t, while the
\* job is DELAYED, StartedDelayAt = t, the key at every later clock
\* reading now is Delay - (now - t), and the key is > 0 whenever
\* now < t + Delay.
C4_DelayCountedFromRelease ==
    (LastSetState(DELAYED) /\ ret.err = NIL) =>
        LET j == jobs[ret.job]
            t == ret.at
        IN  /\ j.state = DELAYED
            /\ j.StartedDelayAt = t
            /\ Key(j, now) = j.Delay - (now - t)
            /\ now < t + j.Delay => Key(j, now) > 0

\* a job created earlier, with an earlier delay period of its own, was
\* released with delay at t; the clock has moved on and the job is not
\* yet due
C4_Witness ==
    /\ LastSetState(DELAYED)
    /\ ret.err = NIL
    /\ hist[ret.job].createdAt < ret.at
    /\ ret.before.StartedDelayAt >= ClockStart
    /\ ret.before.StartedDelayAt < ret.at
    /\ now > ret.at
    /\ Key(jobs[ret.job], now) > 0

\* job id is RESERVED
Reserved(id) == id \in DOMAIN jobs /\ jobs[id].state = RESERVED

\* job id is RESERVED and its TTR ends within the clock readings of the
\* model
ReservedInHorizon(id) ==
    Reserved(id) /\ jobs[id].StartedTTRAt + jobs[id].TTR <= MaxClock

\* the sweeper's SetState(READY) on the RESERVED job id has just returned
\* nil and the job is READY
TimedOut(id) ==
    /\ LastSetState(READY)
    /\ ret.job = id
    /\ ret.before.state = RESERVED
    /\ ret.err = NIL
    /\ jobs[id].state = READY

\* SetState(RESERVED) on job id has just returned nil at a clock reading
\* at which its earlier TTR had run out
ReservedAgain(id) ==
    /\ LastSetState(RESERVED)
    /\ ret.job = id
    /\ ret.err = NIL
    /\ jobs[id].state = RESERVED
    /\ ret.at - ret.before.StartedTTRAt >= jobs[id].TTR
    /\ ret.before.StartedTTRAt >= ClockStart

\* C5: the key of a RESERVED job is <= 0 exactly when
\* now - StartedTTRAt >= TTR; a job left RESERVED is eventually made
\* READY by the sweeper's SetState(READY), which returns nil; and the job
\* is then reserved again by a SetState(RESERVED) that returns nil.
C5_TTRExpiryReturnsToReady ==
    /\ [](\A id \in JobIds :
             Reserved(id) =>
                 (Key(jobs[id], now) <= 0
                    <=> now - jobs[id].StartedTTRAt >= jobs[id].TTR))
    /\ \A id \in JobIds : ReservedInHorizon(id) ~> TimedOut(id)
    /\ \A id \in JobIds : TimedOut(id) ~> ReservedAgain(id)

\* a job has been reserved, has timed out and has been reserved again
C5_Witness == \E id \in JobIds : ReservedAgain(id)

\* the key as section 4.2 of the specification defines it
KeyRef(j, t) ==
    IF j.state = READY THEN j.Pri
    ELSE IF j.state = DELAYED THEN j.Delay - (t - j.StartedDelayAt)
    ELSE IF j.state = RESERVED THEN j.TTR - (t - j.StartedTTRAt)
    ELSE IF j.state = BURIED THEN 0
    ELSE 0 - 1

\* C6: for every job and every clock reading, Key() is Pri when READY,
\* Delay - (now - StartedDelayAt) when DELAYED,
\* TTR - (now - StartedTTRAt) when RESERVED and 0 when BURIED; so is
\* every key a Key() call returned.
C6_KeyIsReference ==
    /\ \A id \in DOMAIN jobs : \A t \in ClockStart..MaxClock :
           Key(jobs[id], t) = KeyRef(jobs[id], t)
    /\ ret.op = "Key" => ret.key = KeyRef(ret.before, ret.at)

\* Key() was called on a BURIED job of non-zero priority and whose
\* timestamps are both set, and returned 0
C6_Witness ==
    /\ ret.op = "Key"
    /\ ret.before.state = BURIED
    /\ ret.before.Pri # 0
    /\ ret.before.StartedDelayAt # 0
    /\ ret.before.StartedTTRAt # 0
    /\ ret.key = 0

\* C7: right after a successful SetState(RESERVED) at clock reading t,
\* StartedTTRAt = t and the key read at t is TTR.
C7_ReserveRestartsTTR ==
    (LastSetState(RESERVED) /\ ret.err = NIL) =>
        LET j == jobs[ret.job] IN
            /\ j.state = RESERVED
            /\ j.StartedTTRAt = ret.at
            /\ Key(j, ret.at) = j.TTR

\* a job reserved before, at an earlier clock reading, and since BURIED
\* and kicked, has been reserved again
C7_Witness ==
    /\ LastSetState(RESERVED)
    /\ ret.err = NIL
    /\ ret.before.StartedTTRAt >= ClockStart
    /\ ret.before.StartedTTRAt < ret.at
    /\ hist[ret.job].bprog = 2
    /\ jobs[ret.job].StartedTTRAt = ret.at

\* the steps C8 excludes, <<from, to>>
NoSuchStep ==
    {<<DELAYED, BURIED>>, <<BURIED, RESERVED>>, <<RESERVED, RESERVED>>,
     <<DELAYED, DELAYED>>}

\* C8: a job that is RESERVED after it was BURIED has entered READY in
\* between; a job that is BURIED after it was DELAYED has entered READY
\* and then RESERVED in between; no successful SetState call takes a job
\* from DELAYED to BURIED, from BURIED to RESERVED, from RESERVED to
\* RESERVED or from DELAYED to DELAYED.
C8_NoShortcuts ==
    /\ \A id \in DOMAIN jobs :
           /\ jobs[id].state = RESERVED => hist[id].bprog # 1
           /\ jobs[id].state = BURIED /\ hist[id].dprog # 0 =>
                  hist[id].dprog = 3
    /\ \A state \in States :
           LastSetState(state) /\ ret.err = NIL =>
               <<ret.before.state, jobs[ret.job].state>> \notin NoSuchStep

\* a job that was DELAYED has been BURIED, kicked and reserved again
C8_Witness ==
    \E id \in DOMAIN jobs :
        /\ jobs[id].state = RESERVED
        /\ hist[id].bprog = 2
        /\ hist[id].dprog = 3
        /\ jobs[id].Delay > 0

\* C9: while a job is DELAYED, its key does not grow from one step to the
\* next and falls whenever the clock advances, below zero as well; the
\* key of a job that entered DELAYED through SetState is at most Delay;
\* and the key is <= 0 exactly when now - StartedDelayAt >= Delay.
C9_DelayedKeyDecreases ==
    /\ [](\A id \in JobIds :
             (id \in DOMAIN jobs /\ jobs[id].state = DELAYED) =>
                 /\ hist[id].moved => Key(jobs[id], now) <= jobs[id].Delay
                 /\ Key(jobs[id], now) <= 0
                       <=> now - jobs[id].StartedDelayAt >= jobs[id].Delay)
    /\ [][\A id \in JobIds :
             (/\ id \in DOMAIN jobs
              /\ jobs[id].state = DELAYED
              /\ jobs'[id].state = DELAYED
              /\ now' >= now)
             => /\ Key(jobs'[id], now') <= Key(jobs[id], now)
                /\ now' > now => Key(jobs'[id], now') < Key(jobs[id], now)
          ]_vars

\* a job released with a positive delay is still DELAYED after the delay
\* has run out, and its key is below zero
C9_Witness ==
    \E id \in DOMAIN jobs :
        /\ jobs[id].state = DELAYED
        /\ hist[id].moved
        /\ jobs[id].Delay > 0
        /\ jobs[id].StartedDelayAt > hist[id].createdAt
        /\ Key(jobs[id], now) < 0

\* C10: a job is READY right after NewJob when delay <= 0 and DELAYED
\* when delay > 0, and stays so until a SetState call changes its state;
\* on a job created with delay <= 0 whose state never changed,
\* SetState(RESERVED) returns nil and makes it RESERVED.
C10_NewJobState ==
    /\ \A id \in DOMAIN jobs :
           ~hist[id].moved =>
               /\ jobs[id].state =
                      IF jobs[id].Delay <= 0 THEN READY ELSE DELAYED
               /\ jobs[id].Delay <= 0 =>
                      SetState(jobs[id], RESERVED, now).err = NIL
    /\ (LastSetState(RESERVED) /\ ret.fresh /\ ret.before.Delay <= 0) =>
           ret.err = NIL /\ jobs[ret.job].state = RESERVED

\* a job created with a negative delay was reserved before any other
\* change of its state, at the clock reading of its creation
C10_Witness ==
    /\ LastSetState(RESERVED)
    /\ ret.fresh
    /\ ret.before.Delay < 0
    /\ ret.before.StartedTTRAt = 0
    /\ ret.at = hist[ret.job].createdAt
    /\ ret.err = NIL
    /\ jobs[ret.job].state = RESERVED

\* C11: a SetState call that returns an error leaves every field of the
\* job as it was, StartedDelayAt and StartedTTRAt included, so the job's
\* key at every clock reading is what it was before the call.
C11_RejectedCallChangesNothing ==
    (ret.op = "SetState" /\ ret.err # NIL) =>
        /\ jobs[ret.job] = ret.before
        /\ \A t \in ClockStart..MaxClock :
               Key(jobs[ret.job], t) = Key(ret.before, t)

\* SetState(DELAYED) was rejected on a job that is DELAYED since an
\* earlier clock reading: its StartedDelayAt is still the earlier one
C11_Witness ==
    /\ LastSetState(DELAYED)
    /\ ret.err # NIL
    /\ ret.before.state = DELAYED
    /\ ret.before.StartedDelayAt >= ClockStart
    /\ ret.before.StartedDelayAt < ret.at
    /\ jobs[ret.job].StartedDelayAt = ret.before.StartedDelayAt

\* C12: a SetState call that returns nil changes, besides the state, only
\* StartedDelayAt when the target is DELAYED and only StartedTTRAt when
\* the target is RESERVED: a transition to READY or to BURIED changes
\* neither, and id, Pri, Delay, TTR, Bytes and Data are never changed.
\* A Key(), State() or Id() call changes no field.
C12_FrameOfCalls ==
    /\ (ret.op = "SetState" /\ ret.err = NIL) =>
           LET b == ret.before
               a == jobs[ret.job]
           IN  a = [b EXCEPT
                      !.state = a.state,
                      !.StartedDelayAt =
                          IF ret.target = DELAYED THEN a.StartedDelayAt
                                                  ELSE @,
                      !.StartedTTRAt =
                          IF ret.target = RESERVED THEN a.StartedTTRAt
                                                   ELSE @]
    /\ ret.op \in {"Key", "State", "Id"} => jobs[ret.job] = ret.before

\* a BURIED job whose timestamps were both set at earlier clock readings
\* has been kicked to READY, and both are as they were
C12_Witness ==
    /\ LastSetState(READY)
    /\ ret.err = NIL
    /\ ret.before.state = BURIED
    /\ ret.before.StartedDelayAt >= ClockStart
    /\ ret.before.StartedTTRAt > ret.before.StartedDelayAt
    /\ ret.at > ret.before.StartedTTRAt
    /\ jobs[ret.job].StartedDelayAt = ret.before.StartedDelayAt
    /\ jobs[ret.job].StartedTTRAt = ret.before.StartedTTRAt

\* the error that names the target state
ErrNaming(state) ==
    CASE state = READY -> "Invalid state transition to READY"
      [] state = DELAYED -> "Invalid state transition to DELAYED"
      [] state = RESERVED -> "Invalid state transition to RESERVED"
      [] state = BURIED -> "Invalid state transition to BURIED"

\* C14: the error a rejected SetState call returns names the target of
\* the call, so the errors of rejected calls with different targets
\* differ.
C14_ErrorNamesTarget ==
    \A state \in States :
        (LastSetState(state) /\ ret.err # NIL) => ret.err = ErrNaming(state)

\* C15: the state of every job is one of READY, DELAYED, RESERVED and
\* BURIED, whatever State arguments SetState was called with; a SetState
\* call whose argument is none of the four leaves every field of the job
\* as it was.
C15_StateIsOneOfFour ==
    /\ \A id \in DOMAIN jobs : jobs[id].state \in States
    /\ (ret.op = "SetState" /\ ret.target \notin States) =>
           jobs[ret.job] = ret.before

\* SetState was called with a State that is none of the four on a job
\* that is RESERVED, and the job is as before
C15_Witness ==
    /\ ret.op = "SetState"
    /\ ret.target \notin States
    /\ ret.before.state = RESERVED
    /\ jobs[ret.job] = ret.before

\* the absolute deadline of a DELAYED or RESERVED job
Deadline(j) ==
    IF j.state = DELAYED THEN j.StartedDelayAt + j.Delay
                         ELSE j.StartedTTRAt + j.TTR

\* jobs a and b are both DELAYED or both RESERVED
SameQueue(a, b) ==
    /\ jobs[a].state = jobs[b].state
    /\ jobs[a].state \in {DELAYED, RESERVED}

\* C13: two DELAYED jobs, or two RESERVED jobs, whose keys are read at
\* the same clock reading are ordered by their keys as by their absolute
\* deadlines (StartedDelayAt + Delay, StartedTTRAt + TTR); the order of
\* their keys is the same after every step; and the key of such a job is
\* <= 0 exactly when the clock has reached its deadline.
C13_KeyOrderIsDeadlineOrder ==
    /\ [](\A a \in PairIds : \A b \in PairIds :
             SameQueue(a, b) =>
                 /\ Key(jobs[a], now) < Key(jobs[b], now)
                       <=> Deadline(jobs[a]) < Deadline(jobs[b])
                 /\ Key(jobs[a], now) <= 0 <=> now >= Deadline(jobs[a]))
    /\ [][\A a \in PairIds : \A b \in PairIds :
             (SameQueue(a, b) /\ jobs' = jobs) =>
                 (Key(jobs[a], now) < Key(jobs[b], now)
                    <=> Key(jobs'[a], now') < Key(jobs'[b], now'))
          ]_vars

\* two DELAYED jobs: j1 entered DELAYED later than j2 and is due earlier;
\* j1's key was read at an earlier clock reading and has fallen since;
\* j1 is due and its key is below j2's
C13_Witness ==
    /\ SameQueue("j1", "j2")
    /\ jobs["j1"].state = DELAYED
    /\ jobs["j1"].StartedDelayAt > jobs["j2"].StartedDelayAt
    /\ Deadline(jobs["j1"]) < Deadline(jobs["j2"])
    /\ ret.op = "Key"
    /\ ret.job = "j1"
    /\ ret.at < now
    /\ ret.key > Key(jobs["j1"], now)
    /\ Key(jobs["j1"], now) <= 0
    /\ Key(jobs["j1"], now) < Key(jobs["j2"], now)

\* ws with w put behind every handle whose key is <= w's key
InsertByKey(ws, w) ==
    LET n == Cardinality({i \in 1..Len(ws) :
                            AwaitingClientKey(ws[i]) <= AwaitingClientKey(w)})
    IN  SubSeq(ws, 1, n) \o <<w>> \o SubSeq(ws, n + 1, Len(ws))

\* the handles ws in ascending order of their keys, handles of equal key
\* in the order in which they were inserted
RECURSIVE ByKey(_)
ByKey(ws) ==
    IF ws = <<>> THEN <<>>
    ELSE InsertByKey(ByKey(SubSeq(ws, 1, Len(ws) - 1)), ws[Len(ws)])

\* C16: the key of every handle is 0, whatever its id and channel and
\* whatever the clock reads, and so is every key a Key() call returned;
\* the handles in ascending order of key, ties in insertion order, are
\* the handles in order of arrival; and no step changes the id or the
\* SendChannel of a handle.
C16_WaitingClientsFIFO ==
    /\ [](/\ \A i \in 1..Len(clients) : AwaitingClientKey(clients[i]) = 0
          /\ ret.op = "AwaitingClient.Key" => ret.key = 0
          /\ ByKey(clients) = clients)
    /\ [][/\ Len(clients') >= Len(clients)
          /\ \A i \in 1..Len(clients) : clients'[i] = clients[i]]_vars

\* three handles with different ids have arrived, the channel of the
\* first above that of the second; Key() was called on the second at an
\* earlier clock reading than now and after the clock had advanced
C16_Witness ==
    /\ Len(clients) >= 3
    /\ clients[1].SendChannel > clients[2].SendChannel
    /\ ret.op = "AwaitingClient.Key"
    /\ ret.job = clients[2].id
    /\ ret.at > ClockStart
    /\ ret.at < now
    /\ ret.key = 0

=============================================================================
